---- MODULE Spec2Model ----
(***************************************************************************)
(* KASURI: the application store (SQLite tables `applications` and         *)
(* `app_state`), the reconciliation of a fresh scan against it, the usage  *)
(* bookkeeping and the index controller that owns the working set.         *)
(*                                                                         *)
(* SQL values: NULL is the empty tuple, a value v is the 1-tuple <<v>>.    *)
(* The same encoding is used for Rust's Option (None / Some(v)).           *)
(***************************************************************************)
EXTENDS Integers, Sequences, FiniteSets, TLC

VARIABLES
    database,       \* the SQLite file: PRAGMA user_version and the tables that exist
    applications,   \* rows of table `applications`, in rowid order
    app_state,      \* rows of table `app_state` (key, value)
    now,            \* the wall clock, Unix seconds (unixepoch(), SystemTime::now())
    app_cache,      \* Kasuri::app_cache: None, or Some(the working set)
    phase,          \* the process: "stopped", "opened" (Kasuri::with_settings returned),
                    \* "ready" (Kasuri is managed), "poisoned"
    last,           \* the last controller call: what it was given and how it ended
    call,           \* the last repository call: its arguments, the table before it, its result
    absent,         \* the identities the candidates of the latest renew_applications lacked
    mutex,          \* the Mutex<Kasuri>: "free", or the thread that holds its guard
    thread          \* the threads that call the controller: where each is in its handler

vars == <<database, applications, app_state, now, app_cache, phase, last, call,
          absent, mutex, thread>>
kasuri_vars == <<app_state, app_cache, phase, last>>
lock_vars == <<mutex, thread>>

----------------------------------------------------------------------------
(* Bounds of the model *)

\* the clock advances by at most MaxTime seconds
MaxTime == 1
\* most entries that WalkDir yields for one search path
MaxEntries == 2
\* update_usage is not called on a record whose usage_count reached MaxUsage
MaxUsage == 1
\* longest candidate list handed to renew_applications
MaxCand == 3
\* largest number of records in the store that a search is run over
MaxApps == 7
\* between two runs of the process the clock advances, in all, by at most
\* MaxIntervals rescan intervals and as many seconds
MaxIntervals == 1

----------------------------------------------------------------------------
(* Values *)

SecondsPerDay == 86400
\* the Unix time at which the model starts: some day after the epoch
StartTime == 3 * SecondsPerDay

NULL == << >>
Some(v) == <<v>>

Range(s) == {s[i] : i \in DOMAIN s}

\* Application::new: alias and icon_path None, usage_recency_score 0.0
\* (a score is the exact quotient num / den)
Application_new(name, app_id, path) ==
    [name |-> name, alias |-> NULL, app_id |-> app_id, path |-> path,
     icon_path |-> NULL, usage_recency_score |-> [num |-> 0, den |-> 1]]

\* What scanning can produce: an executable found by from_path (app_id = path),
\* a Windows Store application found by from_app_store, and the same Store
\* identity reported a second time under another name and package.
AppExe    == Application_new("a", "C:\\a.exe", "C:\\a.exe")
AppStore  == Application_new("S", "s!App", "s_1")
AppStore2 == Application_new("S2", "s!App", "s_2")
Candidates == {AppExe, AppStore, AppStore2}
AppIds == {c.app_id : c \in Candidates}

\* the candidate lists of length at most n that list no candidate twice (one
\* identity can still occur twice: AppStore and AppStore2)
RECURSIVE ListsUpTo(_)
ListsUpTo(n) ==
    IF n = 0 THEN {<< >>}
    ELSE LET shorter == ListsUpTo(n - 1)
         IN shorter \cup UNION {{Append(l, c) : c \in Candidates \ Range(l)} :
                                   l \in {s \in shorter : Len(s) = n - 1}}
CandidateLists == ListsUpTo(MaxCand)

----------------------------------------------------------------------------
(* SQLite statements *)

\* sqlite3_bind_*: parameters are numbered from 1; an index outside
\* 1..(number of placeholders) is SQLITE_RANGE and binds nothing.
bind_ok(params, index) == index \in 1..Len(params)
bind(params, index, value) ==
    IF bind_ok(params, index) THEN [params EXCEPT ![index] = Some(value)] ELSE params

\* a freshly prepared statement: every placeholder is NULL until bound
prepare(n_placeholders) == [i \in 1..n_placeholders |-> NULL]

\* a row of table `applications` (migrate: usage_count DEFAULT 0, last_used
\* without default, added_date DEFAULT (unixepoch()))
InsertedRow(app_id, name, path, time) ==
    [app_id |-> app_id, name |-> name, path |-> path,
     usage_count |-> 0, last_used |-> NULL, added_date |-> time]

\* the points of a repository call at which the connection can report an error
RenewFaults == {"none", "select_prepare", "select_step", "delete_prepare",
                "delete_step", "insert_prepare", "insert_step"}
UsageFaults == {"none", "update_prepare", "update_step"}

----------------------------------------------------------------------------
(* ApplicationRepository::renew_applications *)

\* applications.iter().map(|v| (v.app_id.clone(), v)).collect::<HashMap<_, _>>():
\* a later candidate with the same app_id replaces an earlier one
hash_map_collect(apps) ==
    [k \in {apps[i].app_id : i \in DOMAIN apps} |->
        apps[CHOOSE i \in DOMAIN apps :
                /\ apps[i].app_id = k
                /\ \A j \in DOMAIN apps : apps[j].app_id = k => j <= i]]

\* diff_loop as a bug would have it: every stored row is marked for deletion
\* and every candidate stays in the map (clear the table, insert the scan)
diff_loop_marks_all(table, n_rows, i, hash_map, delete_applications) ==
    [hash_map |-> hash_map,
     delete_applications |-> [k \in 1..n_rows |-> table[k].app_id]]

\* diff_loop as a bug would have it: a stored app_id found in the map is not
\* removed from it
diff_loop_keeps_all(table, n_rows, i, hash_map, delete_applications) ==
    [hash_map |-> hash_map,
     delete_applications |->
        SelectSeq([k \in 1..n_rows |-> table[k].app_id],
                  LAMBDA id : id \notin DOMAIN hash_map)]

\* the loop over "SELECT app_id FROM applications": rows 1..n_rows of the table
\* are stepped through (it ends at Done, or silently at the first failing step)
RECURSIVE diff_loop(_, _, _, _, _)
diff_loop(table, n_rows, i, hash_map, delete_applications) ==
    IF i > n_rows
    THEN [hash_map |-> hash_map, delete_applications |-> delete_applications]
    ELSE LET app_id == table[i].app_id IN
         IF app_id \in DOMAIN hash_map
         THEN diff_loop(table, n_rows, i + 1,
                        [k \in DOMAIN hash_map \ {app_id} |-> hash_map[k]],
                        delete_applications)
         ELSE diff_loop(table, n_rows, i + 1, hash_map,
                        Append(delete_applications, app_id))

\* hash_map.iter(): the map's values in an arbitrary order
iter(hash_map) ==
    LET n == Cardinality(DOMAIN hash_map)
    IN {[i \in 1..n |-> hash_map[keys[i]]] :
            keys \in {f \in [1..n -> DOMAIN hash_map] : Range(f) = DOMAIN hash_map}}

\* delete_applications.iter().enumerate().for_each(|(i, app_id)|
\*     { let _ = statement.bind((i, app_id.as_str())); }), from the 0-based i on
delete_bind_index(i) == i
RECURSIVE bind_delete(_, _, _)
bind_delete(params, delete_applications, i) ==
    IF i >= Len(delete_applications) THEN params
    ELSE bind_delete(bind(params, delete_bind_index(i), delete_applications[i + 1]),
                     delete_applications, i + 1)

\* DELETE FROM applications WHERE app_id in (?,...,?): a NULL placeholder
\* equals no app_id
exec_delete(table, params) ==
    SelectSeq(table, LAMBDA row : Some(row.app_id) \notin Range(params))

\* bind_insert as a bug would have it: name and path bound to each other's
\* placeholder
RECURSIVE bind_insert_swapped(_, _, _)
bind_insert_swapped(params, new_applications, i) ==
    IF i >= Len(new_applications) THEN params
    ELSE LET app == new_applications[i + 1]
             p1 == bind(params, i * 3 + 1, app.app_id)
             p2 == bind(p1, i * 3 + 3, app.name)
             p3 == bind(p2, i * 3 + 2, app.path)
         IN bind_insert_swapped(p3, new_applications, i + 1)

\* new_applications.iter().enumerate(): bind (i*3+1, app_id), (i*3+2, name),
\* (i*3+3, path), from the 0-based i on
RECURSIVE bind_insert(_, _, _)
bind_insert(params, new_applications, i) ==
    IF i >= Len(new_applications) THEN params
    ELSE LET app == new_applications[i + 1]
             p1 == bind(params, i * 3 + 1, app.app_id)
             p2 == bind(p1, i * 3 + 2, app.name)
             p3 == bind(p2, i * 3 + 3, app.path)
         IN bind_insert(p3, new_applications, i + 1)

\* primary_key_ok as a schema without the PRIMARY KEY would have it
no_primary_key(rows) == TRUE

\* the PRIMARY KEY of `applications` (migrate): no two rows with one app_id
primary_key_ok(rows) ==
    \A i, j \in DOMAIN rows : rows[i].app_id = rows[j].app_id => i = j

\* INSERT INTO applications (app_id, name, path) VALUES (?, ?, ?), ...: all
\* the rows or, when a NOT NULL or the PRIMARY KEY constraint fails, none
exec_insert(table, params, time) ==
    LET n == Len(params) \div 3
        text(p) == IF p = NULL THEN "" ELSE p[1]
        rows == [i \in 1..n |->
                    InsertedRow(text(params[3 * i - 2]), text(params[3 * i - 1]),
                                text(params[3 * i]), time)]
    IN IF /\ \A i \in DOMAIN params : params[i] # NULL
          /\ primary_key_ok(table \o rows)
       THEN table \o rows
       ELSE table

\* The outcomes of renew_applications(applications) on `table` at `time`: one
\* for each iteration order of the HashMap and, when a step of the SELECT
\* fails, for each number of rows read before it.
renew_applications(table, apps, fault, time) ==
    LET Result(ok, value, t, del) ==
            [ok |-> ok, value |-> value, table |-> t, delete_applications |-> del]
        rows_read == IF fault = "select_step" /\ Len(table) > 0
                     THEN 0..(Len(table) - 1) ELSE {Len(table)}
        Apply(diff, new_applications) ==
            LET del == diff.delete_applications
                deleted ==
                    IF Len(del) > 0 /\ fault # "delete_step"
                    THEN exec_delete(table, bind_delete(prepare(Len(del)), del, 0))
                    ELSE table
                inserted ==
                    IF Len(new_applications) > 0 /\ fault # "insert_step"
                    THEN exec_insert(deleted,
                            bind_insert(prepare(3 * Len(new_applications)),
                                        new_applications, 0),
                            time)
                    ELSE deleted
            IN IF Len(del) > 0 /\ fault = "delete_prepare"
               THEN Result(FALSE, << >>, table, del)
               ELSE IF Len(new_applications) > 0 /\ fault = "insert_prepare"
               THEN Result(FALSE, << >>, deleted, del)
               ELSE Result(TRUE, new_applications, inserted, del)
    IN IF fault = "select_prepare"
       THEN {Result(FALSE, << >>, table, << >>)}
       ELSE UNION {
              LET diff == diff_loop(table, n, 1, hash_map_collect(apps), << >>)
              IN {Apply(diff, new_applications) :
                    new_applications \in iter(diff.hash_map)}
              : n \in rows_read}

----------------------------------------------------------------------------
(* ApplicationRepository::update_usage *)

\* exec_update as a bug would have it: the UPDATE without its WHERE clause
exec_update_every_row(table, params, time) ==
    [i \in DOMAIN table |->
        [table[i] EXCEPT !.usage_count = @ + 1, !.last_used = Some(time)]]

\* UPDATE applications SET usage_count = usage_count + 1,
\*     last_used = (unixepoch()) WHERE app_id = ?
exec_update(table, params, time) ==
    [i \in DOMAIN table |->
        IF Some(table[i].app_id) = params[1]
        THEN [table[i] EXCEPT !.usage_count = @ + 1, !.last_used = Some(time)]
        ELSE table[i]]

\* update_usage as a bug would have it: an app_id that matches no row is an error
update_usage_strict(table, app_id, fault, time) ==
    IF app_id = "" \/ \A i \in DOMAIN table : table[i].app_id # app_id
    THEN [ok |-> FALSE, table |-> table]
    ELSE [ok |-> TRUE, table |-> exec_update(table, bind(prepare(1), 1, app_id), time)]

update_usage(table, app_id, fault, time) ==
    IF app_id = ""
    THEN [ok |-> TRUE, table |-> table]
    ELSE IF fault = "update_prepare"
    THEN [ok |-> FALSE, table |-> table]
    ELSE LET params == prepare(1)
         IN IF ~bind_ok(params, 1)
            THEN [ok |-> FALSE, table |-> table]
            ELSE IF fault = "update_step"
            THEN [ok |-> TRUE, table |-> table]
            ELSE [ok |-> TRUE, table |-> exec_update(table, bind(params, 1, app_id), time)]

----------------------------------------------------------------------------
(* RepositoryInitializer: the schema version and the migrations *)

DB_VERSION == 1
\* a database file that was never opened, and the one of version DB_VERSION
FreshDatabase == [user_version |-> 0, tables |-> {}]
MigratedDatabase == [user_version |-> DB_VERSION, tables |-> {"app_state", "applications"}]

\* the statements of get_repositories that can fail
OpenFaults == {"none", "version_prepare", "version_step", "create_app_state",
               "create_applications", "update_version"}

\* RepositoryInitializer::get_db_version: PRAGMA user_version; a failing step
\* is logged and the version is taken to be 0
get_db_version(db, fault) ==
    IF fault = "version_prepare" THEN [ok |-> FALSE, value |-> 0]
    ELSE IF fault = "version_step" THEN [ok |-> TRUE, value |-> 0]
    ELSE [ok |-> TRUE, value |-> db.user_version]

\* a migration that drops the table and creates it again
migrate_recreating(tables, name, rows, empty, db_version, fault) ==
    [ok |-> TRUE, tables |-> tables \cup {name}, rows |-> empty]

\* KasuriRepository::migrate and ApplicationRepository::migrate: below
\* version 1, CREATE TABLE IF NOT EXISTS `name`; `rows` are the records of the
\* table and `empty` is a table without records
migrate(tables, name, rows, empty, db_version, fault) ==
    IF db_version < 1
    THEN IF fault = (IF name = "app_state" THEN "create_app_state"
                                            ELSE "create_applications")
         THEN [ok |-> FALSE, tables |-> tables, rows |-> rows]
         ELSE [ok |-> TRUE, tables |-> tables \cup {name},
               rows |-> IF name \in tables THEN rows ELSE empty]
    ELSE [ok |-> TRUE, tables |-> tables, rows |-> rows]

\* RepositoryInitializer::update_db_version: PRAGMA user_version = DB_VERSION
update_db_version(db, fault) ==
    IF fault = "update_version"
    THEN [ok |-> FALSE, database |-> db]
    ELSE [ok |-> TRUE, database |-> [db EXCEPT !.user_version = DB_VERSION]]

\* RepositoryInitializer::get_repositories: every `?` returns the Err with
\* what was executed until then
get_repositories(db, apps, state, fault) ==
    LET db_version == get_db_version(db, fault)
        kasuri_repository ==
            migrate(db.tables, "app_state", state, {}, db_version.value, fault)
        application_repository ==
            migrate(kasuri_repository.tables, "applications", apps, << >>,
                    db_version.value, fault)
        migrated == [db EXCEPT !.tables = application_repository.tables]
        updated == IF db_version.value < DB_VERSION
                   THEN update_db_version(migrated, fault)
                   ELSE [ok |-> TRUE, database |-> migrated]
    IN IF ~db_version.ok
       THEN [ok |-> FALSE, database |-> db, applications |-> apps, app_state |-> state]
       ELSE IF ~kasuri_repository.ok
       THEN [ok |-> FALSE, database |-> db, applications |-> apps, app_state |-> state]
       ELSE IF ~application_repository.ok
       THEN [ok |-> FALSE,
             database |-> [db EXCEPT !.tables = kasuri_repository.tables],
             applications |-> apps, app_state |-> kasuri_repository.rows]
       ELSE [ok |-> updated.ok, database |-> updated.database,
             applications |-> application_repository.rows,
             app_state |-> kasuri_repository.rows]

----------------------------------------------------------------------------
(* The repository driven directly: any sequence of renew_applications and  *)
(* update_usage calls on a store that reports no error.                    *)

\* `last` when no controller call was made yet: the call, its query, the time
\* it ran at, the state it found, the steps it took in their order, and its
\* result
NoOp == [op |-> "none", query |-> "", time |-> 0,
         app_cache_before |-> NULL, applications_before |-> << >>,
         app_state_before |-> {},
         trace |-> << >>, failed_step |-> "", store_failed |-> FALSE,
         ok |-> TRUE, panicked |-> FALSE, sorted |-> << >>, value |-> << >>,
         app_id |-> "", launched |-> FALSE, fault |-> "none",
         fs |-> << >>, store_scan_ok |-> TRUE, database_before |-> FreshDatabase,
         entries |-> << >>, args |-> << >>,
         needed |-> [panicked |-> FALSE, overflow |-> FALSE, value |-> FALSE]]

NoCall == [op |-> "none", applications |-> << >>, app_id |-> "", before |-> << >>,
           time |-> 0, ok |-> TRUE, value |-> << >>, delete_applications |-> << >>,
           absent_before |-> {}]

\* the thread of the UI commands and the thread of the menu events
Threads == {"command", "menu"}
\* a thread outside the controller: the query of its search, the working set
\* when it called, the working sets published while it waited, the working
\* set it searched, the scan part of its refresh and the fault of that
Idle == [pc |-> "idle", query |-> "", before |-> NULL, published |-> {},
         read |-> NULL, scan |-> NULL, fault |-> "none"]

\* RepositoryInitializer::get_repositories on a fresh database: migrate
\* creates an empty `applications` table
Init ==
    /\ database = MigratedDatabase
    /\ applications = << >>
    /\ app_state = {}
    /\ now = StartTime
    /\ app_cache = NULL
    /\ phase = "stopped"
    /\ last = NoOp
    /\ call = NoCall
    /\ absent = {}
    /\ mutex = "free"
    /\ thread = [t \in Threads |-> Idle]

Tick ==
    /\ now < StartTime + MaxTime
    /\ now' = now + 1
    /\ UNCHANGED <<applications, kasuri_vars, call, absent>>
    /\ UNCHANGED lock_vars
    /\ UNCHANGED database

\* whether renew_applications(apps) on `table` gets to the statement `fault` names
fault_reached(table, apps, fault) ==
    LET diff == diff_loop(table, Len(table), 1, hash_map_collect(apps), << >>)
    IN CASE fault \in {"select_step"} -> Len(table) > 0
         [] fault \in {"delete_prepare", "delete_step"} ->
                Len(diff.delete_applications) > 0
         [] fault \in {"insert_prepare", "insert_step"} -> DOMAIN diff.hash_map # {}
         [] OTHER -> TRUE

RenewApplications(apps, fault) ==
    /\ fault_reached(applications, apps, fault)
    /\ \E out \in renew_applications(applications, apps, fault, now) :
        /\ applications' = out.table
        /\ call' = [op |-> "renew_applications", applications |-> apps, app_id |-> "",
                    before |-> applications, time |-> now, ok |-> out.ok,
                    value |-> out.value,
                    delete_applications |-> out.delete_applications,
                    absent_before |-> absent]
        /\ absent' = AppIds \ {apps[i].app_id : i \in DOMAIN apps}
        /\ UNCHANGED <<now, kasuri_vars>>
        /\ UNCHANGED lock_vars
    /\ UNCHANGED database

UpdateUsage(app_id, fault) ==
    LET out == update_usage(applications, app_id, fault, now) IN
    /\ \A i \in DOMAIN applications :
          applications[i].app_id = app_id => applications[i].usage_count < MaxUsage
    /\ applications' = out.table
    /\ call' = [op |-> "update_usage", applications |-> << >>, app_id |-> app_id,
                before |-> applications, time |-> now, ok |-> out.ok,
                value |-> << >>, delete_applications |-> << >>,
                absent_before |-> absent]
    /\ UNCHANGED <<now, absent, kasuri_vars>>
    /\ UNCHANGED lock_vars
    /\ UNCHANGED database

\* an identity no scan produces, and the empty identity
UsageIds == AppIds \cup {"", "C:\\gone.exe"}

Renew == \E apps \in CandidateLists : RenewApplications(apps, "none")
Usage == \E app_id \in UsageIds : UpdateUsage(app_id, "none")

Next == Renew \/ Usage \/ Tick

Spec == Init /\ [][Next]_vars

\* the same calls on a store whose connection can report an error at any
\* prepare or step (with the clock at rest: the time only dates the records)
RenewFault ==
    \E apps \in CandidateLists, fault \in RenewFaults : RenewApplications(apps, fault)
UsageFault ==
    \E app_id \in UsageIds, fault \in UsageFaults : UpdateUsage(app_id, fault)

NextFault == RenewFault \/ UsageFault

SpecFault == Init /\ [][NextFault]_vars

----------------------------------------------------------------------------
(* Claims about the repository *)

Ids(seq) == {seq[i].app_id : i \in DOMAIN seq}
RowsOf(table, app_id) == {i \in DOMAIN table : table[i].app_id = app_id}
IsRenew == call.op = "renew_applications"
IsUsage == call.op = "update_usage"

\* C1: renew_applications with an empty candidate list on a store holding
\* N >= 1 records leaves the applications table empty and returns an empty
\* list of new applications.
C1_EmptyScanDeletesAll ==
    (IsRenew /\ call.applications = << >> /\ Len(call.before) >= 1)
        => (applications = << >> /\ call.value = << >>)

\* C2: every app_id that was in the table before renew_applications(C) and
\* occurs in C still has its record after the call, with the usage_count and
\* last_used it had before.
C2_UsagePreserved ==
    IsRenew =>
        \A i \in DOMAIN call.before :
            call.before[i].app_id \in Ids(call.applications) =>
                /\ RowsOf(applications, call.before[i].app_id) # {}
                /\ \A j \in RowsOf(applications, call.before[i].app_id) :
                      /\ applications[j].usage_count = call.before[i].usage_count
                      /\ applications[j].last_used = call.before[i].last_used

\* C2 witness: a call that kept a used record while it inserted or deleted another
C2_Witness ==
    /\ IsRenew
    /\ applications # call.before
    /\ \E i \in DOMAIN call.before :
          /\ call.before[i].app_id \in Ids(call.applications)
          /\ call.before[i].usage_count > 0

\* C3: a second renew_applications(C) right after a first one that returned Ok
\* returns no new application, marks no app_id for deletion and leaves the
\* table unchanged.
C3_Idempotent ==
    [][(/\ IsRenew /\ call.ok
        /\ call'.op = "renew_applications"
        /\ call'.applications = call.applications
        /\ call'.before = applications
        /\ now' = now)
       => (/\ call'.value = << >>
           /\ call'.delete_applications = << >>
           /\ applications' = applications)]_vars

\* C4: renew_applications(C) returns exactly the new set: one Application of C
\* for each distinct app_id of C that was not in the table when the call
\* began, none that was persisted, none twice, and these are the identities
\* the call inserted.
C4_ReturnsNewSet ==
    (IsRenew /\ call.ok) =>
        /\ Ids(call.value) = Ids(call.applications) \ Ids(call.before)
        /\ Cardinality(Ids(call.value)) = Len(call.value)
        /\ Range(call.value) \subseteq Range(call.applications)
        /\ Ids(applications) \ Ids(call.before) = Ids(call.value)

\* C4 witness: candidates naming one identity twice, one persisted identity
\* and a new one
C4_Witness ==
    /\ IsRenew /\ call.ok
    /\ Len(call.value) = 1
    /\ Ids(call.applications) \cap Ids(call.before) # {}
    /\ Cardinality(Ids(call.applications)) < Len(call.applications)

\* C5: the applications table never holds two records with one app_id, also
\* when a candidate list names an app_id more than once.
C5_UniqueAppId ==
    \A i, j \in DOMAIN applications :
        applications[i].app_id = applications[j].app_id => i = j

\* C5 witness: a candidate list with the same app_id twice, of which exactly
\* one record was stored
C5_Witness ==
    /\ IsRenew /\ call.ok
    /\ \E i, j \in DOMAIN call.applications :
          /\ i # j
          /\ call.applications[i].app_id = call.applications[j].app_id
          /\ call.applications[i].app_id \notin Ids(call.before)
          /\ Cardinality(RowsOf(applications, call.applications[i].app_id)) = 1

\* C6: an app_id that the candidates of one renew_applications call lacked and
\* the candidates of the next renew_applications call contain has, after that
\* call, usage_count = 0 and last_used unset.
C6_UsageDiscarded ==
    (IsRenew /\ call.ok) =>
        \A i \in DOMAIN applications :
            (/\ applications[i].app_id \in call.absent_before
             /\ applications[i].app_id \in Ids(call.applications))
            => (applications[i].usage_count = 0 /\ applications[i].last_used = NULL)

\* C7: every record inserted by renew_applications carries the app_id, name
\* and path of a candidate, usage_count = 0 and last_used = NULL.
C7_InsertedFresh ==
    IsRenew =>
        \A i \in DOMAIN applications :
            applications[i].app_id \notin Ids(call.before) =>
                /\ \E k \in DOMAIN call.applications :
                      /\ call.applications[k].app_id = applications[i].app_id
                      /\ call.applications[k].name = applications[i].name
                      /\ call.applications[k].path = applications[i].path
                /\ applications[i].usage_count = 0
                /\ applications[i].last_used = NULL

\* C7 witness: a call that inserted a Store application, whose path differs
\* from its app_id and its name
C7_Witness ==
    /\ IsRenew
    /\ \E i \in DOMAIN applications :
          /\ applications[i].app_id \notin Ids(call.before)
          /\ applications[i].path # applications[i].app_id

\* C8: update_usage for a non-empty app_id that is in the store adds exactly 1
\* to that record's usage_count and sets its last_used to the current time;
\* its name, path and added_date and every other record are unchanged.
C8_UsageRecorded ==
    (IsUsage /\ call.app_id # "" /\ RowsOf(call.before, call.app_id) # {}) =>
        /\ DOMAIN applications = DOMAIN call.before
        /\ \A i \in DOMAIN call.before :
              IF call.before[i].app_id = call.app_id
              THEN applications[i] =
                      [call.before[i] EXCEPT !.usage_count = @ + 1,
                                             !.last_used = Some(call.time)]
              ELSE applications[i] = call.before[i]

\* C8 witness: the usage of one of two stored records is recorded
C8_Witness ==
    /\ IsUsage
    /\ Len(call.before) = 2
    /\ RowsOf(call.before, call.app_id) # {}
    /\ call.time > StartTime

\* C9: update_usage returns Ok and leaves the table unchanged when the app_id
\* is empty and when no record has that app_id.
C9_NoOpUsage ==
    (IsUsage /\ (call.app_id = "" \/ RowsOf(call.before, call.app_id) = {})) =>
        (call.ok /\ applications = call.before)

\* C9 witness: a non-empty app_id that is not in a non-empty store
C9_Witness ==
    /\ IsUsage
    /\ call.app_id # ""
    /\ call.before # << >>
    /\ RowsOf(call.before, call.app_id) = {}

\* C9 witness of the other case: the empty app_id on a non-empty store
C9_WitnessEmpty ==
    /\ IsUsage
    /\ call.app_id = ""
    /\ call.before # << >>

----------------------------------------------------------------------------
(* KasuriRepository: the last scan time in table `app_state` *)

STATE_KEY_LAST_APPLICATION_SEARCH_TIME == "last_application_search_time"

\* u64::to_string: the decimal digits, most significant first
RECURSIVE to_string(_)
to_string(n) == IF n < 10 THEN <<n>> ELSE Append(to_string(n \div 10), n % 10)

\* str::parse::<u64> of a string of decimal digits (the empty string is an
\* error; the values stored here were written by to_string of a u64)
RECURSIVE parse_digits(_, _)
parse_digits(digits, acc) ==
    IF digits = << >> THEN acc
    ELSE parse_digits(Tail(digits), acc * 10 + Head(digits))
parse_u64(digits) ==
    IF digits = << >> THEN [ok |-> FALSE, value |-> 0]
    ELSE [ok |-> TRUE, value |-> parse_digits(digits, 0)]

\* INSERT OR IGNORE: the value stored first stays
save_state_or_ignore(state, key, value, fault) ==
    IF fault = "save_prepare"
    THEN [ok |-> FALSE, app_state |-> state]
    ELSE IF fault = "save_step" \/ \E r \in state : r.key = key
    THEN [ok |-> TRUE, app_state |-> state]
    ELSE [ok |-> TRUE, app_state |-> state \cup {[key |-> key, value |-> value]}]

\* INSERT OR REPLACE INTO app_state (key, value) VALUES (?, ?): `key` is the
\* PRIMARY KEY; a failing step ends the loop and is not reported
save_state(state, key, value, fault) ==
    IF fault = "save_prepare"
    THEN [ok |-> FALSE, app_state |-> state]
    ELSE IF fault = "save_step"
    THEN [ok |-> TRUE, app_state |-> state]
    ELSE [ok |-> TRUE,
          app_state |-> {r \in state : r.key # key} \cup {[key |-> key, value |-> value]}]

\* SELECT value FROM app_state WHERE key = ?
get_state(state, key) ==
    IF \E r \in state : r.key = key
    THEN Some((CHOOSE r \in state : r.key = key).value)
    ELSE NULL

get_last_application_search_time(state) ==
    LET result == get_state(state, STATE_KEY_LAST_APPLICATION_SEARCH_TIME)
    IN parse_u64(IF result = NULL THEN to_string(0) ELSE result[1])

set_last_application_search_time(state, fault, time) ==
    save_state(state, STATE_KEY_LAST_APPLICATION_SEARCH_TIME, to_string(time), fault)

----------------------------------------------------------------------------
(* ApplicationRepository::get_applications *)

\* statement.read::<i64, _>: sqlite3_column_int64 gives 0 for NULL
read_i64(column) == IF column = NULL THEN 0 ELSE column[1]

\* a conversion whose score is the usage_count, whenever the record was used
Application_from_count(record, time) ==
    [name |-> record.name, alias |-> NULL, app_id |-> record.app_id,
     path |-> record.path, icon_path |-> NULL,
     usage_recency_score |-> [num |-> record.usage_count, den |-> 1]]

\* impl From<ApplicationRepositoryRecord> for Application, at time `time`
Application_from(record, time) ==
    LET days_since_last_used ==
            IF record.last_used > 0 /\ time > record.last_used
            THEN (time - record.last_used) \div SecondsPerDay
            ELSE 0
    IN [name |-> record.name, alias |-> NULL, app_id |-> record.app_id,
        path |-> record.path, icon_path |-> NULL,
        usage_recency_score |->
            [num |-> record.usage_count, den |-> days_since_last_used + 1]]

\* The outcomes of get_applications: the loop ends at Done or, silently, at
\* the first failing step, and what was read until then is returned as Ok.
get_applications(table, fault, time) ==
    LET record(row) ==
            [app_id |-> row.app_id, name |-> row.name, path |-> row.path,
             usage_count |-> row.usage_count, last_used |-> read_i64(row.last_used)]
        read(n) == [i \in 1..n |-> Application_from(record(table[i]), time)]
    IN IF fault = "load_prepare"
       THEN {[ok |-> FALSE, value |-> << >>]}
       ELSE IF fault = "load_step"
       THEN {[ok |-> TRUE, value |-> read(n)] :
                n \in IF table = << >> THEN {0} ELSE 0..(Len(table) - 1)}
       ELSE {[ok |-> TRUE, value |-> read(Len(table))]}

----------------------------------------------------------------------------
(* FuzzySorter: scoring, ordering and filtering of the working set *)

MINIMUM_MATCH_SCORE == 19

Min(a, b) == IF a < b THEN a ELSE b

\* Option::unwrap_or
unwrap_or(option, default) == IF option = NULL THEN default ELSE option[1]

\* SkimMatcherV2::fuzzy_match(choice, pattern) of crate fuzzy_matcher: None
\* when `pattern` does not match `choice`, Some(score) when it does, Some(0)
\* for the empty pattern. For the other patterns of the model the scores are
\* given by a table that puts the names below, at and above
\* MINIMUM_MATCH_SCORE: "s" does not match "a"; "t" scores "a" above "S";
\* "u" scores "a" at the threshold.
fuzzy_match(choice, pattern) ==
    CASE pattern = "" -> Some(0)
      [] pattern = "s" -> IF choice = "S" THEN Some(20) ELSE NULL
      [] pattern = "t" -> IF choice = "a" THEN Some(21) ELSE Some(20)
      [] pattern = "u" -> IF choice = "a" THEN Some(19) ELSE Some(20)
      [] OTHER -> NULL
Queries == {"", "s", "t", "u"}

\* i64::cmp
cmp(a, b) == IF a < b THEN "Less" ELSE IF a = b THEN "Equal" ELSE "Greater"

\* f64::partial_cmp on quotients with positive denominators (no NaN arises
\* from usage_count / (days + 1))
partial_cmp(a, b) == Some(cmp(a.num * b.den, b.num * a.den))

\* descending score only
compare_score(a, b) == cmp(b.score, a.score)

\* the closure given to sort_by: descending score, then descending
\* usage_recency_score
compare(a, b) ==
    LET order == cmp(b.score, a.score)
    IN IF order = "Equal"
       THEN unwrap_or(partial_cmp(b.app.usage_recency_score,
                                  a.app.usage_recency_score), "Equal")
       ELSE order

\* the place of x in an ordered list: before the first element that x
\* precedes, otherwise before the first element that x does not follow
RECURSIVE insert_before_equal(_, _)
insert_before_equal(sorted, x) ==
    IF sorted = << >> THEN <<x>>
    ELSE IF compare(x, Head(sorted)) # "Greater" THEN <<x>> \o sorted
    ELSE <<Head(sorted)>> \o insert_before_equal(Tail(sorted), x)

\* slice::sort_by is stable: an element goes behind every element that does
\* not compare Greater than it
RECURSIVE insert(_, _)
insert(sorted, x) ==
    IF sorted = << >> THEN <<x>>
    ELSE IF compare(x, Head(sorted)) = "Less" THEN <<x>> \o sorted
    ELSE <<Head(sorted)>> \o insert(Tail(sorted), x)

RECURSIVE sort_by(_)
sort_by(v) ==
    IF v = << >> THEN << >>
    ELSE insert(sort_by(SubSeq(v, 1, Len(v) - 1)), v[Len(v)])

\* filters that keep every score, and every score from the threshold on
keep_all(score) == TRUE
keep_from_threshold(score) == score >= MINIMUM_MATCH_SCORE

\* the filter closure: *score > MINIMUM_MATCH_SCORE
filter(score) == score > MINIMUM_MATCH_SCORE

\* the map closure of sort_with_filter: the score of one application
score_of(app, query) == unwrap_or(fuzzy_match(app.name, query), 0)

\* FuzzySorter::sort_with_filter
sort_with_filter(query, apps) ==
    LET applications_with_scores ==
            [i \in DOMAIN apps |-> [app |-> apps[i], score |-> score_of(apps[i], query)]]
        sorted == sort_by(applications_with_scores)
        filtered_results == SelectSeq(sorted, LAMBDA p : filter(p.score))
    IN [i \in DOMAIN filtered_results |-> filtered_results[i].app]

----------------------------------------------------------------------------
(* Kasuri: the index controller *)

\* Settings: the configuration snapshot given to Kasuri::with_settings
SEARCH_RESULT_LIMIT == 6
SETTINGS_VALUE_APPLICATION_SEARCH_PATH_LIST_WINDOWS_STORE_APP == "WindowsStoreApp"
settings ==
    [application_search_path_list |->
        <<"C:\\Apps", SETTINGS_VALUE_APPLICATION_SEARCH_PATH_LIST_WINDOWS_STORE_APP>>,
     application_search_interval_on_startup_minute |-> 1,
     application_name_aliases |-> <<[path |-> "C:\\a.exe", alias |-> "alpha"]>>]

\* what Application::from_path can find under a search path
FsScans == {<< >>, <<AppExe>>}
\* what the PowerShell query of from_app_store can end with
StoreScans == {[ok |-> FALSE, apps |-> << >>],
               [ok |-> TRUE, apps |-> <<AppStore>>],
               [ok |-> TRUE, apps |-> <<AppStore2>>],
               [ok |-> TRUE, apps |-> <<AppStore, AppStore2>>]}

\* Application::from_app_store: a failed query is logged and gives Vec::new()
from_app_store(ps) == IF ps.ok THEN ps.apps ELSE << >>

\* a collection that comes out empty as soon as one source failed
search_path_until_failure(paths, fs, ps) ==
    IF ps.ok THEN fs \o ps.apps ELSE << >>

\* the flat_map over the search path list
RECURSIVE search_path_applications(_, _, _)
search_path_applications(paths, fs, ps) ==
    IF paths = << >> THEN << >>
    ELSE (IF Head(paths) = SETTINGS_VALUE_APPLICATION_SEARCH_PATH_LIST_WINDOWS_STORE_APP
          THEN from_app_store(ps) ELSE fs)
         \o search_path_applications(Tail(paths), fs, ps)

\* the points of a controller call at which something can fail: the store's
\* statements, and the PowerShell run of Application::create_app_icon
StoreFaults == {"save_prepare", "save_step", "load_prepare", "load_step"}
                  \cup (RenewFaults \ {"none"})
KasuriFaults == {"none", "icon"} \cup StoreFaults

\* Kasuri::load_applications_from_search_path
load_applications_from_search_path(table, state, fs, ps, fault, time) ==
    LET scanned ==
            search_path_applications(settings.application_search_path_list, fs, ps)
        saved == set_last_application_search_time(state, fault, time)
        Result(ok, t, failed, steps, new_applications) ==
            [ok |-> ok, applications |-> t, app_state |-> saved.app_state,
             store_failed |-> failed, trace |-> steps,
             failed_step |-> IF ok THEN "" ELSE steps[Len(steps)],
             scanned |-> scanned, new_applications |-> new_applications]
        to_save == <<"scan", "set_last_application_search_time">>
        to_renew == Append(to_save, "renew_applications")
        to_icon == Append(to_renew, "create_app_icon")
    IN IF ~saved.ok
       THEN {Result(FALSE, table, TRUE, to_save, << >>)}
       ELSE {LET failed == \/ fault = "save_step"
                           \/ /\ fault \in RenewFaults \ {"none"}
                              /\ fault_reached(table, scanned, fault)
             IN IF ~renewed.ok
                THEN Result(FALSE, renewed.table, failed, to_renew, << >>)
                ELSE IF fault = "icon"
                THEN Result(FALSE, renewed.table, failed, to_icon, renewed.value)
                ELSE Result(TRUE, renewed.table, failed, to_icon, renewed.value)
             : renewed \in renew_applications(table, scanned, fault, time)}

\* an icon name made from the path instead of the app_id
get_icon_name_of_path(app) == [md5_16 |-> app.path, ext |-> ".png"]

\* Application::get_icon_name: the first 16 hex digits of the MD5 of app_id,
\* and ".png"
get_icon_name(app) == [md5_16 |-> app.app_id, ext |-> ".png"]

\* Kasuri::setup_applications_icon_path
setup_applications_icon_path(apps) ==
    [i \in DOMAIN apps |->
        [apps[i] EXCEPT !.icon_path =
            Some([dir |-> "app_cache_dir", file |-> get_icon_name(apps[i])])]]

\* Kasuri::set_app_cache: the new value of app_cache
set_app_cache(apps) ==
    LET aliases == settings.application_name_aliases
        alias_map == [q \in {aliases[i].path : i \in DOMAIN aliases} |->
                        (CHOOSE a \in Range(aliases) : a.path = q).alias]
    IN Some([i \in DOMAIN apps |->
                IF apps[i].path \in DOMAIN alias_map
                THEN [apps[i] EXCEPT !.alias = Some(alias_map[apps[i].path])]
                ELSE apps[i]])

\* the reload from the repository, the icon paths and the new cache, after
\* the scan part ended with `scan`
reload(scan, cache, fault, time) ==
    {[ok |-> loaded.ok, applications |-> scan.applications,
      app_state |-> scan.app_state,
      app_cache |-> IF loaded.ok
                    THEN set_app_cache(setup_applications_icon_path(loaded.value))
                    ELSE cache,
      store_failed |-> scan.store_failed \/ fault \in {"load_prepare", "load_step"},
      trace |-> scan.trace \o
                (IF loaded.ok
                 THEN <<"get_applications", "setup_applications_icon_path",
                        "set_app_cache">>
                 ELSE <<"get_applications">>),
      failed_step |-> IF loaded.ok THEN scan.failed_step ELSE "get_applications",
      scanned |-> scan.scanned, new_applications |-> scan.new_applications]
     : loaded \in get_applications(scan.applications, fault, time)}

\* a refresh that reloads the working set whatever became of the scan part
reload_cache_always(scan, cache, fault, time) == reload(scan, cache, fault, time)

\* the rest of load_applications_to_cache and of init, after the scan part
\* ended with `scan`: an Err of the scan part is returned by `?`
reload_cache(scan, cache, fault, time) ==
    IF ~scan.ok
    THEN {[ok |-> FALSE, applications |-> scan.applications,
           app_state |-> scan.app_state, app_cache |-> cache,
           store_failed |-> scan.store_failed, trace |-> scan.trace,
           failed_step |-> scan.failed_step,
           scanned |-> scan.scanned, new_applications |-> scan.new_applications]}
    ELSE reload(scan, cache, fault, time)

\* Kasuri::load_applications_to_cache: the outcomes of a force refresh
load_applications_to_cache(table, state, cache, fs, ps, fault, time) ==
    UNION {reload_cache(scan, cache, fault, time) :
            scan \in load_applications_from_search_path(table, state, fs, ps, fault, time)}

interval_seconds == settings.application_search_interval_on_startup_minute * 60

\* a rescan from the interval on, instead of after it
rescan_from_interval(state, time) ==
    LET stored == get_last_application_search_time(state)
    IN time - (IF stored.ok THEN stored.value ELSE 0) >= interval_seconds

\* Kasuri::is_search_application_needed
is_search_application_needed(state, time) ==
    LET stored == get_last_application_search_time(state)
        last_application_search_time == IF stored.ok THEN stored.value ELSE 0
        elapsed_time == time - last_application_search_time
    IN elapsed_time > interval_seconds

\* Kasuri::init (load_applications_from_search_path_if_needed, set_app_cache)
init(table, state, cache, fs, ps, fault, time) ==
    IF is_search_application_needed(state, time)
    THEN load_applications_to_cache(table, state, cache, fs, ps, fault, time)
    ELSE reload_cache([ok |-> TRUE, applications |-> table, app_state |-> state,
                       store_failed |-> FALSE, trace |-> << >>, failed_step |-> "",
                       scanned |-> << >>, new_applications |-> << >>],
                      cache, fault, time)

\* a result list without a cap
no_limit(n) == n

\* std::cmp::min(sorted_apps.len(), SEARCH_RESULT_LIMIT)
limit(n) == Min(n, SEARCH_RESULT_LIMIT)

AppForView(app) ==
    [name |-> app.name, app_id |-> app.app_id,
     icon_path |-> unwrap_or(app.icon_path, "")]

\* Kasuri::handle_search_application
handle_search_application(cache, query) ==
    LET sorted_apps == sort_with_filter(query, unwrap_or(cache, << >>))
    IN [i \in 1..limit(Len(sorted_apps)) |-> AppForView(sorted_apps[i])]

\* a handler that records the usage whether the launch succeeded or not
handle_launch_unchecked(table, cache, app_id, launched, fault, time) ==
    IF cache = NULL
    THEN [ok |-> FALSE, applications |-> table]
    ELSE [ok |-> launched,
          applications |-> update_usage(table, app_id, fault, time).table]

\* Kasuri::handle_launch_application: `launched` is how Application::launch ends
handle_launch_application(table, cache, app_id, launched, fault, time) ==
    IF cache = NULL
    THEN [ok |-> FALSE, applications |-> table]
    ELSE LET found == {i \in DOMAIN cache[1] : cache[1][i].app_id = app_id} IN
         IF found = {}
         THEN [ok |-> TRUE, applications |-> table]
         ELSE IF ~launched
         THEN [ok |-> FALSE, applications |-> table]
         ELSE [ok |-> TRUE,
               applications |-> update_usage(table, app_id, fault, time).table]

----------------------------------------------------------------------------
(* The application: the process starts (setup: with_settings, init,        *)
(* app.manage), serves the tray menu and the UI commands under the one     *)
(* Mutex<Kasuri>, and exits. The store outlives the process.               *)

\* the process was never run: there is no database file yet
InitKasuri ==
    /\ database = FreshDatabase
    /\ applications = << >>
    /\ app_state = {}
    /\ now = StartTime
    /\ app_cache = NULL
    /\ phase = "stopped"
    /\ last = NoOp
    /\ call = NoCall
    /\ absent = {}
    /\ mutex = "free"
    /\ thread = [t \in Threads |-> Idle]

Op(op, out, cache, fs, ps, fault) ==
    [NoOp EXCEPT !.op = op, !.time = now, !.app_cache_before = cache,
                 !.fs = fs, !.store_scan_ok = ps.ok, !.fault = fault,
                 !.applications_before = applications,
                 !.app_state_before = app_state,
                 !.trace = out.trace, !.failed_step = out.failed_step,
                 !.store_failed = out.store_failed,
                 !.ok = out.ok]

\* `call` after a controller call whose scan part ended with `out`: what the
\* scan collected, what renew_applications returned to create_app_icon, and
\* whether load_applications_from_search_path returned Ok; a call that did not
\* scan leaves `call` as it is
ScanCall(out) ==
    IF out.trace = << >> \/ out.trace[1] # "scan" THEN call
    ELSE [NoCall EXCEPT !.op = "load_applications_from_search_path",
                        !.applications = out.scanned,
                        !.value = out.new_applications,
                        !.ok = out.failed_step \notin
                                  {"set_last_application_search_time",
                                   "renew_applications", "create_app_icon"}]

\* a fault that the call does not get to is no input of its own
FaultMatters(fault, fs, ps) ==
    fault \in RenewFaults \ {"none"} =>
        fault_reached(applications,
            search_path_applications(settings.application_search_path_list, fs, ps),
            fault)

\* a fault that get_repositories does not get to is no input of its own
open_fault_reached(db, fault) ==
    fault \in {"create_app_state", "create_applications", "update_version"}
        => db.user_version < DB_VERSION

\* run(): the setup closure, Kasuri::with_settings. If get_repositories fails,
\* setup fails and the process ends.
Open(fault) ==
    LET out == get_repositories(database, applications, app_state, fault) IN
    /\ phase = "stopped"
    /\ open_fault_reached(database, fault)
    /\ database' = out.database
    /\ applications' = out.applications
    /\ app_state' = out.app_state
    /\ phase' = IF out.ok THEN "opened" ELSE "stopped"
    /\ last' = [NoOp EXCEPT !.op = "get_repositories", !.ok = out.ok,
                            !.applications_before = applications,
                            !.app_state_before = app_state,
                            !.database_before = database]
    /\ UNCHANGED <<now, app_cache, call, absent>>
    /\ UNCHANGED lock_vars

\* run(): the setup closure, kasuri.init and app.manage. If init fails, setup
\* fails and the process ends. (`traced`: the scan is kept in `call`.)
StartWith(fs, ps, fault, traced) ==
    /\ phase = "opened"
    /\ FaultMatters(fault, fs, ps)
    /\ is_search_application_needed(app_state, now) \/ fault \in {"none", "load_prepare", "load_step"}
    /\ \E out \in init(applications, app_state, NULL, fs, ps, fault, now) :
          /\ applications' = out.applications
          /\ app_state' = out.app_state
          /\ app_cache' = out.app_cache
          /\ phase' = IF out.ok THEN "ready" ELSE "stopped"
          /\ last' = Op("init", out, NULL, fs, ps, fault)
          /\ call' = IF traced THEN ScanCall(out) ELSE call
    /\ UNCHANGED <<now, absent>>
    /\ UNCHANGED lock_vars
    /\ UNCHANGED database

\* a setup that registers the controller (app.manage) before it looks at what
\* init returned
StartManaged(fs, ps, fault) ==
    /\ phase = "opened"
    /\ FaultMatters(fault, fs, ps)
    /\ is_search_application_needed(app_state, now) \/ fault \in {"none", "load_prepare", "load_step"}
    /\ \E out \in init(applications, app_state, NULL, fs, ps, fault, now) :
          /\ applications' = out.applications
          /\ app_state' = out.app_state
          /\ app_cache' = out.app_cache
          /\ phase' = "ready"
          /\ last' = Op("init", out, NULL, fs, ps, fault)
    /\ UNCHANGED <<now, call, absent>>
    /\ UNCHANGED lock_vars
    /\ UNCHANGED database

Start(fs, ps, fault) == StartWith(fs, ps, fault, FALSE)

\* on_menu_event, MenuId::Reload: load_applications_to_cache(..).expect(..)
\* panics on Err while the MutexGuard is held. (`traced`: the scan is kept in
\* `call`.)
ReloadWith(fs, ps, fault, traced) ==
    /\ phase = "ready"
    /\ FaultMatters(fault, fs, ps)
    /\ \E out \in load_applications_to_cache(applications, app_state, app_cache,
                                            fs, ps, fault, now) :
          /\ applications' = out.applications
          /\ app_state' = out.app_state
          /\ app_cache' = out.app_cache
          /\ phase' = IF out.ok THEN "ready" ELSE "poisoned"
          /\ last' = Op("load_applications_to_cache", out, app_cache, fs, ps, fault)
          /\ call' = IF traced THEN ScanCall(out) ELSE call
    /\ UNCHANGED <<now, absent>>
    /\ UNCHANGED lock_vars
    /\ UNCHANGED database

Reload(fs, ps, fault) == ReloadWith(fs, ps, fault, FALSE)

\* a launch command after which the working set is loaded again from the
\* store, with the new usage
LaunchReloading(app_id, launched, fault) ==
    LET out == handle_launch_application(applications, app_cache, app_id,
                                         launched, fault, now) IN
    /\ phase \in {"ready", "poisoned"}
    /\ \A i \in DOMAIN applications :
          applications[i].app_id = app_id => applications[i].usage_count < MaxUsage
    /\ applications' = IF phase = "ready" THEN out.applications ELSE applications
    /\ last' = IF phase = "ready"
               THEN [NoOp EXCEPT !.op = "handle_launch_application", !.ok = out.ok,
                        !.app_cache_before = app_cache,
                        !.applications_before = applications,
                        !.app_id = app_id, !.launched = launched, !.fault = fault]
               ELSE [NoOp EXCEPT !.op = "handle_launch_application",
                        !.app_cache_before = app_cache,
                        !.applications_before = applications,
                        !.app_id = app_id, !.launched = launched, !.fault = fault,
                        !.ok = FALSE, !.panicked = TRUE]
    /\ app_cache' =
          IF phase = "ready" /\ app_cache # NULL
          THEN set_app_cache(setup_applications_icon_path(
                   (CHOOSE loaded \in get_applications(out.applications, "none", now) :
                        TRUE).value))
          ELSE app_cache
    /\ UNCHANGED <<app_state, phase, now, call, absent>>
    /\ UNCHANGED lock_vars
    /\ UNCHANGED database

\* the launch_application command: app_state.lock().unwrap() panics when the
\* mutex was poisoned; otherwise the result of handle_launch_application is
\* dropped (let _ =) and the command returns
Launch(app_id, launched, fault) ==
    LET out == handle_launch_application(applications, app_cache, app_id,
                                         launched, fault, now) IN
    /\ phase \in {"ready", "poisoned"}
    /\ \A i \in DOMAIN applications :
          applications[i].app_id = app_id => applications[i].usage_count < MaxUsage
    /\ applications' = IF phase = "ready" THEN out.applications ELSE applications
    /\ last' = IF phase = "ready"
               THEN [NoOp EXCEPT !.op = "handle_launch_application", !.ok = out.ok,
                        !.app_cache_before = app_cache,
                        !.applications_before = applications,
                        !.app_id = app_id, !.launched = launched, !.fault = fault]
               ELSE [NoOp EXCEPT !.op = "handle_launch_application",
                        !.app_cache_before = app_cache,
                        !.applications_before = applications,
                        !.app_id = app_id, !.launched = launched, !.fault = fault,
                        !.ok = FALSE, !.panicked = TRUE]
    /\ UNCHANGED <<app_state, app_cache, phase, now, call, absent>>
    /\ UNCHANGED lock_vars
    /\ UNCHANGED database

\* MenuId::Exit, or the end of a process whose event handler panicked
Exit ==
    /\ phase \in {"ready", "poisoned"}
    /\ phase' = "stopped"
    /\ app_cache' = NULL
    /\ last' = [NoOp EXCEPT !.op = "exit"]
    /\ UNCHANGED <<applications, app_state, now, call, absent>>
    /\ UNCHANGED lock_vars
    /\ UNCHANGED database

\* a search that takes the working set out of the controller
\* (self.app_cache.take()) instead of borrowing it
SearchTaking(query) ==
    /\ phase = "ready"
    /\ last' = [NoOp EXCEPT !.op = "search_application", !.query = query,
                    !.app_cache_before = app_cache,
                    !.sorted = sort_with_filter(query, unwrap_or(app_cache, << >>)),
                    !.value = handle_search_application(app_cache, query)]
    /\ app_cache' = NULL
    /\ UNCHANGED <<applications, app_state, phase, now, call, absent>>
    /\ UNCHANGED lock_vars
    /\ UNCHANGED database

\* the search_application command: app_state.lock().unwrap() panics when the
\* mutex was poisoned by a panic of another handler
Search(query) ==
    /\ phase \in {"ready", "poisoned"}
    /\ last' = IF phase = "ready"
               THEN [NoOp EXCEPT !.op = "search_application", !.query = query,
                        !.app_cache_before = app_cache,
                        !.sorted = sort_with_filter(query, unwrap_or(app_cache, << >>)),
                        !.value = handle_search_application(app_cache, query)]
               ELSE [NoOp EXCEPT !.op = "search_application", !.query = query,
                        !.app_cache_before = app_cache,
                        !.ok = FALSE, !.panicked = TRUE]
    /\ UNCHANGED <<applications, app_state, app_cache, phase, now, call, absent>>
    /\ UNCHANGED lock_vars
    /\ UNCHANGED database

\* time passes between two runs of the process
Elapse(seconds) ==
    /\ phase = "stopped"
    /\ now + seconds <= StartTime + MaxIntervals * (interval_seconds + 1)
    /\ now' = now + seconds
    /\ UNCHANGED <<applications, kasuri_vars, call, absent>>
    /\ UNCHANGED lock_vars
    /\ UNCHANGED database

OpenClean == Open("none")
OpenAny == \E fault \in OpenFaults : Open(fault)
StartAny == \E fs \in FsScans, ps \in StoreScans, fault \in KasuriFaults : Start(fs, ps, fault)
ReloadAny == \E fs \in FsScans, ps \in StoreScans, fault \in KasuriFaults : Reload(fs, ps, fault)
LaunchAny ==
    \E app_id \in AppIds, launched \in BOOLEAN, fault \in UsageFaults :
        Launch(app_id, launched, fault)

SearchAny == \E query \in Queries : Search(query)
ElapseAny == \E seconds \in {interval_seconds, interval_seconds + 1} : Elapse(seconds)

\* (while the process runs the clock is at rest: every step of a refresh
\* happens within one second)
NextKasuri == OpenClean \/ StartAny \/ ReloadAny \/ LaunchAny \/ SearchAny \/ Exit

SpecKasuri == InitKasuri /\ [][NextKasuri]_vars

\* Runs of the process with time passing between them: the faults are those
\* of the first and of the last store statement of a start
RestartFaults == {"none", "save_step", "load_prepare"}
StartAgain ==
    \E fs \in FsScans, ps \in StoreScans, fault \in RestartFaults : Start(fs, ps, fault)

NextRestart == OpenAny \/ StartAgain \/ LaunchAny \/ Exit \/ ElapseAny

SpecRestart == InitKasuri /\ [][NextRestart]_vars

\* Runs of the process with tray reloads and time passing between the runs,
\* with the scan of each refresh kept in `call`: the store works, the icon
\* generation can fail
IconFaults == {"none", "icon"}
StartTraced ==
    \E fs \in FsScans, ps \in StoreScans, fault \in IconFaults :
        StartWith(fs, ps, fault, TRUE)
ReloadTraced ==
    \E fs \in FsScans, ps \in StoreScans, fault \in IconFaults :
        ReloadWith(fs, ps, fault, TRUE)

NextRefresh == OpenClean \/ StartTraced \/ ReloadTraced \/ Exit \/ ElapseAny

SpecRefresh == InitKasuri /\ [][NextRefresh]_vars

----------------------------------------------------------------------------
(* is_search_application_needed on unsigned 64-bit integers. A u64 is the  *)
(* sequence of its four 16-bit digits, the lowest first; `overflow_checks` *)
(* is the build's setting: with it an overflowing `-` or `*` panics,       *)
(* without it the result wraps around.                                     *)
(* (In the runs of the other specifications the stored time is at most    *)
(* the clock and the interval is one minute: nothing overflows, and        *)
(* is_search_application_needed above is the same function on integers.)   *)

Digit == 65536
u64(n) == <<n % Digit, (n \div Digit) % Digit, 0, 0>>
U64_MAX == <<Digit - 1, Digit - 1, Digit - 1, Digit - 1>>

\* a - b on the digits from the i-th on, with the borrow of the lower digits
RECURSIVE sub_digits(_, _, _, _)
sub_digits(a, b, i, borrow) ==
    IF i > Len(a) THEN [value |-> << >>, overflow |-> borrow = 1]
    ELSE LET d == a[i] - b[i] - borrow
             rest == sub_digits(a, b, i + 1, IF d < 0 THEN 1 ELSE 0)
         IN [value |-> <<IF d < 0 THEN d + Digit ELSE d>> \o rest.value,
             overflow |-> rest.overflow]

\* u64::overflowing_sub: the wrapped difference, and whether it wrapped
overflowing_sub(a, b) == sub_digits(a, b, 1, 0)

\* a * m on the digits from the i-th on, with the carry of the lower digits
RECURSIVE mul_digits(_, _, _, _)
mul_digits(a, m, i, carry) ==
    IF i > Len(a) THEN [value |-> << >>, overflow |-> carry > 0]
    ELSE LET p == a[i] * m + carry
             rest == mul_digits(a, m, i + 1, p \div Digit)
         IN [value |-> <<p % Digit>> \o rest.value, overflow |-> rest.overflow]

\* u64::overflowing_mul by a small factor
overflowing_mul(a, m) == mul_digits(a, m, 1, 0)

\* a > b on u64: decided by the highest digit in which they differ
gt(a, b) ==
    \E i \in DOMAIN a :
        /\ a[i] > b[i]
        /\ \A j \in DOMAIN a : j > i => a[j] = b[j]

\* Kasuri::is_search_application_needed on the stored time `last_time`
\* (last_application_search_time), the clock `time` and the configured minutes
is_search_application_needed_u64(last_time, time, minute, overflow_checks) ==
    LET elapsed_time == overflowing_sub(time, last_time)
        interval == overflowing_mul(minute, 60)
        overflow == elapsed_time.overflow \/ interval.overflow
    IN IF overflow_checks /\ overflow
       THEN [panicked |-> TRUE, overflow |-> TRUE, value |-> FALSE]
       ELSE [panicked |-> FALSE, overflow |-> overflow,
             value |-> gt(elapsed_time.value, interval.value)]

\* the times and the minutes tried: up to MaxOffset from zero, from the clock
\* of the other runs, from the largest u64 and from the largest minutes whose
\* seconds fit (u64::MAX / 60 = 307445734561825860)
MaxOffset == 1
U64_MAX_DIV_60 == <<17476, 17476, 17476, 1092>>
minus(a, k) == overflowing_sub(a, u64(k)).value
plus(a, k) == overflowing_sub(a, minus(u64(0), k)).value
Times ==
    UNION {{u64(k), u64(StartTime + k), minus(U64_MAX, k)} : k \in 0..MaxOffset}
Minutes ==
    UNION {{u64(k), minus(U64_MAX_DIV_60, k), plus(U64_MAX_DIV_60, k),
            minus(U64_MAX, k)} : k \in 0..MaxOffset}

Needed(last_application_search_time, time, minute, overflow_checks) ==
    /\ last' = [NoOp EXCEPT
                   !.op = "is_search_application_needed",
                   !.args = [last_application_search_time |->
                                last_application_search_time,
                             now |-> time, minute |-> minute,
                             overflow_checks |-> overflow_checks],
                   !.needed = is_search_application_needed_u64(
                                  last_application_search_time, time, minute,
                                  overflow_checks)]
    /\ UNCHANGED <<applications, app_state, now, app_cache, phase, call, absent>>
    /\ UNCHANGED lock_vars
    /\ UNCHANGED database

NeededAny ==
    /\ last.op = "none"
    /\ \E last_application_search_time \in Times, time \in Times,
          minute \in Minutes, overflow_checks \in BOOLEAN :
          Needed(last_application_search_time, time, minute, overflow_checks)

NextNeeded == NeededAny

SpecNeeded == InitKasuri /\ [][NextNeeded]_vars

----------------------------------------------------------------------------
(* Application::from_path: scanning a directory. A file name is the        *)
(* sequence of its characters, a path the parent directory, a backslash    *)
(* and the file name.                                                      *)

Max(set) == CHOOSE m \in set : \A k \in set : k <= m
\* the positions of the dots of a file name
dots(file_name) == {k \in DOMAIN file_name : file_name[k] = "."}

\* Path::extension: None when the name has no dot, or only a leading one;
\* otherwise what follows the last dot
extension(file_name) ==
    IF dots(file_name) = {} \/ Max(dots(file_name)) = 1
    THEN NULL
    ELSE Some(SubSeq(file_name, Max(dots(file_name)) + 1, Len(file_name)))

\* Path::file_stem: the whole name when it has no dot, or only a leading
\* one; otherwise what precedes the last dot
file_stem(file_name) ==
    IF dots(file_name) = {} \/ Max(dots(file_name)) = 1
    THEN Some(file_name)
    ELSE Some(SubSeq(file_name, 1, Max(dots(file_name)) - 1))

\* an extension compared as it is spelled
keep_case(chars) == chars

\* OsStr::to_ascii_lowercase, on the letters of the model
to_ascii_lowercase(chars) ==
    LET lower(c) == CASE c = "B" -> "b" [] c = "E" -> "e" [] c = "K" -> "k"
                      [] c = "L" -> "l" [] c = "N" -> "n" [] c = "X" -> "x"
                      [] OTHER -> c
    IN [k \in DOMAIN chars |-> lower(chars[k])]

\* Path::to_string_lossy of entry.path()
path_str(entry) == entry.parent \o <<"\\">> \o entry.file_name

\* Application::from_path over the entries that WalkDir yields, in its order
from_path(entries) ==
    LET walked == SelectSeq(entries, LAMBDA e : e.ok)
        files == SelectSeq(walked, LAMBDA e : e.file_type = "file")
        ext(e) == to_ascii_lowercase(extension(e.file_name)[1])
        launchable(e) ==
            /\ extension(e.file_name) # NULL
            /\ ~(ext(e) # <<"e", "x", "e">> /\ ext(e) # <<"l", "n", "k">>)
            /\ file_stem(e.file_name) # NULL
        found == SelectSeq(files, launchable)
    IN [k \in DOMAIN found |->
            Application_new(file_stem(found[k].file_name)[1],
                            path_str(found[k]), path_str(found[k]))]

\* the file names, directories and kinds of entry of the model
FileNames ==
    {<<"a", ".", "e", "x", "e">>, <<"B", ".", "E", "X", "E">>,
     <<"c", ".", "L", "n", "k">>, <<"d", ".", "t", "x", "t">>,
     <<"e", "x", "e">>, <<".", "e", "x", "e">>,
     <<"f", ".", "g", ".", "l", "n", "k">>}
Directories == {<<"C", ":", "\\", "A">>, <<"C", ":", "\\", "A", "\\", "s">>}
FileTypes == {"file", "dir", "symlink"}
\* an entry that WalkDir could not read
Unreadable == [ok |-> FALSE, file_type |-> "", parent |-> << >>, file_name |-> << >>]
Entries ==
    {Unreadable} \cup
    {[ok |-> TRUE, file_type |-> t, parent |-> d, file_name |-> n] :
        t \in FileTypes, d \in Directories, n \in FileNames}
\* what WalkDir can yield: no path twice
EntryLists ==
    UNION {{l \in [1..n -> Entries] :
                \A i, j \in 1..n :
                    (i < j /\ l[i].ok /\ l[j].ok) => path_str(l[i]) # path_str(l[j])}
           : n \in 0..MaxEntries}

\* one call of Application::from_path
FromPath(entries) ==
    /\ last' = [NoOp EXCEPT !.op = "from_path", !.entries = entries,
                            !.value = from_path(entries)]
    /\ UNCHANGED <<applications, app_state, now, app_cache, phase, call, absent>>
    /\ UNCHANGED lock_vars
    /\ UNCHANGED database

\* (one scan in a run)
FromPathAny ==
    /\ last.op = "none"
    /\ \E entries \in EntryLists : FromPath(entries)

NextScan == FromPathAny

SpecScan == InitKasuri /\ [][NextScan]_vars

----------------------------------------------------------------------------
(* Searching a store of up to MaxApps records: the process starts within   *)
(* the rescan interval, loads the working set from the store and serves    *)
(* search_application.                                                     *)

\* the day the used records of the store were last launched on
UsedTime == StartTime + 2 * SecondsPerDay

\* the identities of the records, in rowid order
PositionIds == <<"C:\\a.exe", "C:\\b.exe", "C:\\c.exe", "C:\\d.exe",
                 "C:\\e.exe", "C:\\f.exe", "C:\\g.exe", "C:\\h.exe", "C:\\i.exe">>

\* name and usage of a record: never launched, launched ten times until two
\* days before UsedTime, launched ten times until UsedTime
RowKinds == {[name |-> "a", usage_count |-> 0, last_used |-> NULL],
             [name |-> "S", usage_count |-> 10, last_used |-> Some(StartTime)],
             [name |-> "S", usage_count |-> 10, last_used |-> Some(UsedTime)]}

StoredRow(i, kind) ==
    [InsertedRow(PositionIds[i], kind.name, PositionIds[i], StartTime)
        EXCEPT !.usage_count = kind.usage_count, !.last_used = kind.last_used]

\* the clock when the process starts: a second before UsedTime, at it, after it
StartClocks == {UsedTime - 1, UsedTime, UsedTime + 1}

InitSorter ==
    /\ database = MigratedDatabase
    /\ now \in StartClocks
    /\ \E n \in 0..Min(MaxApps, Len(PositionIds)) :
          \E kinds \in [1..n -> RowKinds] :
              applications = [i \in 1..n |-> StoredRow(i, kinds[i])]
    /\ app_state = save_state({}, STATE_KEY_LAST_APPLICATION_SEARCH_TIME,
                              to_string(now), "none").app_state
    /\ app_cache = NULL
    /\ phase = "stopped"
    /\ last = NoOp
    /\ call = NoCall
    /\ absent = {}
    /\ mutex = "free"
    /\ thread = [t \in Threads |-> Idle]

\* the process starts; nothing is found by a scan, should one be made
StartStored == Start(<< >>, [ok |-> FALSE, apps |-> << >>], "none")

NextSorter == OpenClean \/ StartStored \/ SearchAny

SpecSorter == InitSorter /\ [][NextSorter]_vars

----------------------------------------------------------------------------
(* The handlers on two threads: search_application on the thread of the UI *)
(* commands, the Reload menu event on another. Each handler takes the      *)
(* guard of the Mutex<Kasuri>, runs the controller call step by step and   *)
(* drops the guard when it returns or unwinds.                             *)

\* a lock that lets every thread in
lock_ignored(m) == TRUE

\* Mutex::lock returns when no thread holds the guard
lock_free(m) == m = "free"

\* the search_application command is invoked and waits for the mutex
SearchCall(query) ==
    /\ phase = "ready"
    /\ thread["command"].pc = "idle"
    /\ thread' = [thread EXCEPT !["command"] =
                     [Idle EXCEPT !.pc = "waiting", !.query = query,
                                  !.before = app_cache]]
    /\ UNCHANGED <<applications, app_state, now, app_cache, phase, last, call,
                   absent, mutex>>
    /\ UNCHANGED database

\* app_state.lock().unwrap() of search_application
SearchLock ==
    /\ phase = "ready"
    /\ thread["command"].pc = "waiting"
    /\ lock_free(mutex)
    /\ mutex' = "command"
    /\ thread' = [thread EXCEPT !["command"].pc = "locked"]
    /\ UNCHANGED <<applications, app_state, now, app_cache, phase, last, call, absent>>
    /\ UNCHANGED database

\* kasuri.handle_search_application(query), and the guard is dropped
SearchRun ==
    /\ thread["command"].pc = "locked"
    /\ last' = [NoOp EXCEPT !.op = "search_application",
                            !.query = thread["command"].query,
                            !.app_cache_before = app_cache,
                            !.sorted = sort_with_filter(thread["command"].query,
                                                        unwrap_or(app_cache, << >>)),
                            !.value = handle_search_application(app_cache,
                                                                thread["command"].query)]
    /\ mutex' = "free"
    /\ thread' = [thread EXCEPT !["command"].pc = "idle",
                                !["command"].read = app_cache]
    /\ UNCHANGED <<applications, app_state, now, app_cache, phase, call, absent>>
    /\ UNCHANGED database

\* on_menu_event, MenuId::Reload: app.state::<Mutex<Kasuri>>().lock().unwrap()
ReloadLock ==
    /\ phase = "ready"
    /\ thread["menu"].pc = "idle"
    /\ lock_free(mutex)
    /\ mutex' = "menu"
    /\ thread' = [thread EXCEPT !["menu"] =
                     [Idle EXCEPT !.pc = "locked", !.before = app_cache]]
    /\ UNCHANGED <<applications, app_state, now, app_cache, phase, last, call, absent>>
    /\ UNCHANGED database

\* load_applications_to_cache: load_applications_from_search_path
ReloadScan(fs, ps, fault) ==
    /\ thread["menu"].pc = "locked"
    /\ \E scan \in load_applications_from_search_path(applications, app_state,
                                                       fs, ps, fault, now) :
          /\ applications' = scan.applications
          /\ app_state' = scan.app_state
          /\ thread' = [thread EXCEPT !["menu"].pc = "scanned",
                                      !["menu"].scan = Some(scan),
                                      !["menu"].fault = fault]
    /\ UNCHANGED <<now, app_cache, phase, last, call, absent, mutex>>
    /\ UNCHANGED database

\* load_applications_to_cache: the reload and set_app_cache, or the Err of
\* the scan part; on Err expect() panics and the guard is dropped by the
\* unwinding, which poisons the mutex
ReloadSet ==
    /\ thread["menu"].pc = "scanned"
    /\ \E out \in reload_cache(thread["menu"].scan[1], app_cache,
                                thread["menu"].fault, now) :
          /\ app_cache' = out.app_cache
          /\ phase' = IF out.ok THEN phase ELSE "poisoned"
          /\ last' = [NoOp EXCEPT !.op = "load_applications_to_cache",
                                  !.app_cache_before = thread["menu"].before,
                                  !.trace = out.trace,
                                  !.failed_step = out.failed_step,
                                  !.ok = out.ok, !.panicked = ~out.ok]
          /\ thread' = [thread EXCEPT
                          !["menu"].pc = "idle",
                          !["command"].published =
                              IF thread["command"].pc = "waiting" /\ out.ok
                              THEN @ \cup {out.app_cache} ELSE @]
    /\ mutex' = "free"
    /\ UNCHANGED <<applications, app_state, now, call, absent>>
    /\ UNCHANGED database

\* the faults of a threaded refresh: none, and a failing icon generation
ThreadFaults == {"none", "icon"}

StartClean == \E fs \in FsScans, ps \in StoreScans : Start(fs, ps, "none")
SearchCallAny == \E query \in Queries : SearchCall(query)
ReloadScanAny ==
    \E fs \in FsScans, ps \in StoreScans, fault \in ThreadFaults : ReloadScan(fs, ps, fault)

NextMutex ==
    OpenClean \/ StartClean \/ SearchCallAny \/ SearchLock \/ SearchRun
        \/ ReloadLock \/ ReloadScanAny \/ ReloadSet

SpecMutex == InitKasuri /\ [][NextMutex]_vars

----------------------------------------------------------------------------
(* Claims about the controller *)

\* C10: if a store operation of a force refresh fails (saving the scan time,
\* the reconciliation, the reload from the store), load_applications_to_cache
\* returns Err and app_cache holds the working set it held before the call.
C10_FailedRefreshKeepsCache ==
    (last.op = "load_applications_to_cache" /\ last.store_failed)
        => (~last.ok /\ app_cache = last.app_cache_before)

----------------------------------------------------------------------------
(* Claims about searching *)

IsSearch == last.op = "search_application" /\ ~last.panicked
Searched == unwrap_or(last.app_cache_before, << >>)
\* the fuzzy score of an application for the query of the last search
Score(app) == unwrap_or(fuzzy_match(app.name, last.query), 0)
Recency(app) == app.usage_recency_score
PositionOf(seq, app) == CHOOSE i \in DOMAIN seq : seq[i].app_id = app.app_id

\* C13: sort_with_filter with the empty query returns the empty list for every
\* candidate list, and so does handle_search_application("").
C13_EmptyQuery ==
    (IsSearch /\ last.query = "") => (last.sorted = << >> /\ last.value = << >>)

\* C13 witness: the empty query on a working set larger than the result cap
C13_Witness ==
    /\ IsSearch /\ last.query = ""
    /\ Len(Searched) > SEARCH_RESULT_LIMIT

C14_WitnessNoMatch ==
    /\ IsSearch /\ last.query # ""
    /\ \E i, j \in DOMAIN Searched :
          /\ fuzzy_match(Searched[i].name, last.query) = NULL
          /\ fuzzy_match(Searched[j].name, last.query) # NULL

\* C15: in the output of sort_with_filter the scores never increase, and of
\* two neighbours with equal scores the earlier has the greater or equal
\* usage_recency_score.
C15_Ordered ==
    IsSearch =>
        \A i \in DOMAIN last.sorted :
            i < Len(last.sorted) =>
                LET a == last.sorted[i]
                    b == last.sorted[i + 1]
                IN /\ Score(a) >= Score(b)
                   /\ Score(a) = Score(b) =>
                          Recency(a).num * Recency(b).den >= Recency(b).num * Recency(a).den

\* C15 witness: the output holds two scores, and two candidates of one score
\* whose usage_recency_score differs and that came in ascending order
C15_Witness ==
    /\ IsSearch
    /\ \E i, j \in DOMAIN last.sorted : Score(last.sorted[i]) # Score(last.sorted[j])
    /\ \E i, j \in DOMAIN Searched :
          /\ i < j
          /\ Score(Searched[i]) = Score(Searched[j]) /\ Score(Searched[i]) > 19
          /\ Recency(Searched[i]).num * Recency(Searched[j]).den
                < Recency(Searched[j]).num * Recency(Searched[i]).den

\* C16: candidates that tie on score and on usage_recency_score are in the
\* output of sort_with_filter in the order they had in the input.
C16_Stable ==
    IsSearch =>
        \A i, j \in DOMAIN last.sorted :
            (/\ i < j
             /\ Score(last.sorted[i]) = Score(last.sorted[j])
             /\ Recency(last.sorted[i]).num * Recency(last.sorted[j]).den
                   = Recency(last.sorted[j]).num * Recency(last.sorted[i]).den)
            => PositionOf(Searched, last.sorted[i]) < PositionOf(Searched, last.sorted[j])

\* C16 witness: the output holds three candidates that tie on both keys
C16_Witness ==
    /\ IsSearch
    /\ \E i \in DOMAIN last.sorted :
          /\ i + 2 <= Len(last.sorted)
          /\ \A j \in {i + 1, i + 2} :
                /\ Score(last.sorted[i]) = Score(last.sorted[j])
                /\ Recency(last.sorted[i]) = Recency(last.sorted[j])

\* C17: handle_search_application returns the first min(6, n) entries of the
\* n entries of sort_with_filter, in the same order, and so at most 6.
C17_ResultCap ==
    IsSearch =>
        /\ Len(last.value) <= SEARCH_RESULT_LIMIT
        /\ Len(last.value) = Min(SEARCH_RESULT_LIMIT, Len(last.sorted))
        /\ \A i \in DOMAIN last.value :
              /\ last.value[i].app_id = last.sorted[i].app_id
              /\ last.value[i].name = last.sorted[i].name

\* C17 witness: more than 6 candidates are above the threshold, with two scores
C17_Witness ==
    /\ IsSearch
    /\ Len(last.sorted) > SEARCH_RESULT_LIMIT
    /\ Score(last.sorted[1]) > Score(last.sorted[Len(last.sorted)])

----------------------------------------------------------------------------
(* Claims about loading the working set *)

IsInit == last.op = "init"
\* whole days between the last use of a stored record and time t, 0 when the
\* record was never used or t is not after its last use
DaysSince(row, t) ==
    IF row.last_used = NULL \/ row.last_used[1] >= t THEN 0
    ELSE (t - row.last_used[1]) \div 86400

\* C18: a record loaded into the working set has usage_recency_score =
\* usage_count / (days_since_last_used + 1), days_since_last_used being the
\* whole days since last_used, 0 when last_used is unset or not in the past;
\* usage_count 10 and a last use exactly 2 days ago give 10/3.
C18_UsageRecency ==
    (IsInit /\ last.ok) =>
        /\ Len(app_cache[1]) = Len(applications)
        /\ \A i \in DOMAIN applications :
              LET score == app_cache[1][i].usage_recency_score
                  row == applications[i]
              IN /\ score.den > 0
                 /\ score.num * (DaysSince(row, last.time) + 1) = row.usage_count * score.den
                 /\ (row.usage_count = 10 /\ row.last_used = Some(last.time - 2 * 86400))
                        => score.num * 3 = 10 * score.den
                 /\ (row.last_used = NULL \/ row.last_used[1] > last.time)
                        => score.num = row.usage_count * score.den

\* C18 witness: a record used 10 times and last exactly 2 days before it is
\* loaded, next to one that was never used
C18_Witness ==
    /\ IsInit /\ last.ok
    /\ \E i, j \in DOMAIN applications :
          /\ applications[i].usage_count = 10
          /\ applications[i].last_used = Some(last.time - 2 * 86400)
          /\ applications[j].last_used = NULL

\* C18 witness of the other case: a record whose last_used is in the future
C18_WitnessFuture ==
    /\ IsInit /\ last.ok
    /\ \E i \in DOMAIN applications :
          /\ applications[i].usage_count = 10
          /\ applications[i].last_used # NULL
          /\ applications[i].last_used[1] > last.time

\* the stored last scan time that an init found, 0 when none was stored
LastScanBefore ==
    LET stored == {r \in last.app_state_before :
                      r.key = STATE_KEY_LAST_APPLICATION_SEARCH_TIME}
    IN IF stored = {} THEN 0 ELSE parse_digits((CHOOSE r \in stored : TRUE).value, 0)
Scanned == "scan" \in Range(last.trace)

C19_WitnessDue ==
    /\ IsInit /\ last.ok /\ Scanned
    /\ last.time - LastScanBefore = settings.application_search_interval_on_startup_minute * 60 + 1
    /\ applications # last.applications_before

IsRefresh == last.op \in {"init", "load_applications_to_cache"} /\ Scanned
Has(step) == step \in Range(last.trace)
Pos(step) == CHOOSE i \in DOMAIN last.trace : last.trace[i] = step

\* C20: a refresh scans, then reconciles, then generates the icons, then
\* reloads from the store; it replaces the working set only as its last step,
\* after the scan and the icon generation completed, and leaves it alone when
\* one of them failed.
C20_RefreshOrder ==
    IsRefresh =>
        /\ Pos("scan") = 1
        /\ Has("renew_applications") => Pos("scan") < Pos("renew_applications")
        /\ Has("create_app_icon") =>
              /\ Has("renew_applications")
              /\ Pos("renew_applications") < Pos("create_app_icon")
        /\ Has("get_applications") =>
              /\ Has("create_app_icon")
              /\ Pos("create_app_icon") < Pos("get_applications")
        /\ Has("set_app_cache") =>
              /\ Has("get_applications")
              /\ Pos("set_app_cache") = Len(last.trace)
              /\ last.failed_step \notin {"scan", "create_app_icon"}
        /\ app_cache # last.app_cache_before => Has("set_app_cache")
        /\ last.failed_step \in {"scan", "create_app_icon"} =>
              (~last.ok /\ app_cache = last.app_cache_before)

\* C20 witness: a force refresh whose icon generation failed after the
\* reconciliation had changed the store
C20_Witness ==
    /\ IsRefresh /\ last.op = "load_applications_to_cache"
    /\ last.failed_step = "create_app_icon"
    /\ applications # last.applications_before
    /\ last.app_cache_before # NULL

\* C20 witness of the other case: a refresh that went through and replaced a
\* working set by a different one
C20_WitnessReplaced ==
    /\ IsRefresh /\ last.ok
    /\ last.app_cache_before # NULL
    /\ app_cache # last.app_cache_before

----------------------------------------------------------------------------
(* Claims about the handlers *)

\* a Reload menu event failed: its expect() panicked under the guard
ReloadFailed == phase = "poisoned"

\* C11: after a refresh requested from the tray Reload item failed, a
\* search_application command returns the results ranked over the working
\* set indexed before; it does not panic.
C11_SearchAfterFailedReload ==
    (last.op = "search_application" /\ ReloadFailed) =>
        /\ ~last.panicked
        /\ last.value = handle_search_application(app_cache, last.query)

InCall(t) == thread[t].pc \in {"locked", "scanned"}

\* C12: the handlers are serialized by the Mutex<Kasuri>: a search never runs
\* while a reload is between taking and dropping the guard, the working set
\* stays the one before the reload until the reload replaces it as its last
\* step, and a search that waited for the mutex ranks the whole working set
\* of the time it was called or a whole one published since.
C12_Serialized ==
    /\ ~(InCall("command") /\ InCall("menu"))
    /\ \A t \in Threads : InCall(t) => mutex = t
    /\ InCall("menu") => app_cache = thread["menu"].before
    /\ (thread["command"].pc = "idle" /\ thread["command"].query # "") =>
          thread["command"].read \in
              {thread["command"].before} \cup thread["command"].published

\* C12 witness: a search called while a reload held the guard got the
\* working set that this reload published, another one than before
C12_Witness ==
    /\ thread["command"].pc = "idle" /\ thread["command"].query # ""
    /\ thread["command"].read \in thread["command"].published
    /\ thread["command"].read # thread["command"].before
    /\ last.op = "search_application" /\ last.value # << >>

----------------------------------------------------------------------------
(* Claims about the force refresh and the commands *)

IsForceRefresh == last.op = "load_applications_to_cache"
\* the working set holds the records of the applications table, in its order
CacheIsStore ==
    /\ app_cache # NULL
    /\ Len(app_cache[1]) = Len(applications)
    /\ \A i \in DOMAIN applications :
          /\ app_cache[1][i].app_id = applications[i].app_id
          /\ app_cache[1][i].name = applications[i].name
          /\ app_cache[1][i].path = applications[i].path

\* C21: a force refresh always runs the scan and the reconciliation, whatever
\* the stored last scan time and the interval are, also right after a scan
\* (the reconciliation is only left out when the statement before it, the
\* saving of the scan time, returned Err); when it returns Ok the working set
\* holds the records of the applications table.
C21_ForceRefresh ==
    IsForceRefresh =>
        /\ last.trace # << >> /\ last.trace[1] = "scan"
        /\ last.failed_step # "set_last_application_search_time"
              => Has("renew_applications")
        /\ last.ok => (Has("renew_applications") /\ CacheIsStore)

IsLaunch == last.op = "handle_launch_application"
\* the application that the last launch_application command named, if the
\* working set holds it
Launched == {app \in Range(unwrap_or(last.app_cache_before, << >>)) :
                app.app_id = last.app_id}

\* C22: the search_application command returns a list in every state of the
\* controller, and the launch_application command returns without error or
\* panic when the identity is not in the working set, when the launch fails
\* and when the store fails to record the usage.
C22_NeverFailOutward ==
    /\ last.op = "search_application" =>
          (~last.panicked /\ Len(last.value) <= SEARCH_RESULT_LIMIT)
    /\ (IsLaunch /\ (\/ Launched = {}
                     \/ ~last.launched
                     \/ last.fault # "none")) => ~last.panicked

\* the last launch_application command got to a successful launch of an
\* application of the working set
LaunchSucceeded == IsLaunch /\ ~last.panicked /\ Launched # {} /\ last.launched
\* usage_count of the i-th record is n more than before the last command
UsageCountUp(i, n) ==
    /\ applications[i].app_id = last.applications_before[i].app_id
    /\ applications[i].usage_count = last.applications_before[i].usage_count + n

C23_WitnessFailed ==
    /\ IsLaunch /\ ~last.panicked /\ Launched # {}
    /\ ~last.launched \/ last.fault # "none"
    /\ \E i \in DOMAIN applications : applications[i].app_id = last.app_id

\* C24: when the Windows Store scan of a refresh fails, that source adds no
\* application, the applications found under the filesystem search path are
\* still reconciled into the store, and the refresh does not return Err
\* because of it (it returns Ok unless another step fails).
C24_StoreScanFailure ==
    (IsRefresh /\ ~last.store_scan_ok) =>
        /\ last.failed_step # "set_last_application_search_time"
              => Has("renew_applications")
        /\ last.fault = "none" =>
              /\ last.ok
              /\ Ids(last.fs) \subseteq Ids(applications)
              /\ Ids(applications) \ Ids(last.applications_before) \subseteq Ids(last.fs)

\* C24 witness: a refresh whose Store scan failed inserted the application
\* found under the search path and returned Ok
C24_Witness ==
    /\ IsRefresh /\ ~last.store_scan_ok /\ last.ok /\ last.fault = "none"
    /\ \E app \in Range(last.fs) :
          /\ app.app_id \notin Ids(last.applications_before)
          /\ app.app_id \in Ids(applications)
          /\ app.app_id \in Ids(app_cache[1])

\* C25: get_applications returns every record of the applications table or
\* Err, never Ok with a part of the records: a call that loaded the working
\* set from the store either failed at get_applications or holds one
\* application per record, in the order of the table.
C25_AllRecordsOrErr ==
    (last.op \in {"init", "load_applications_to_cache"} /\ Has("get_applications")) =>
        \/ ~last.ok /\ last.failed_step = "get_applications"
                    /\ app_cache = last.app_cache_before
        \/ /\ last.ok /\ app_cache # NULL
           /\ [i \in DOMAIN app_cache[1] |-> app_cache[1][i].app_id]
                    = [i \in DOMAIN applications |-> applications[i].app_id]

\* C26: handle_search_application changes neither the working set nor the
\* store (the applications table, the stored last scan time), for every query
\* and however often it is called.
C26_SearchChangesNothing ==
    [][last'.op = "search_application" =>
          /\ app_cache' = app_cache
          /\ applications' = applications
          /\ app_state' = app_state]_vars

\* C26 witness: a second search in a row, on a working set and a store that
\* hold records, found some
C26_Witness ==
    /\ IsSearch /\ last.value # << >>
    /\ last.app_cache_before = app_cache
    /\ applications # << >> /\ app_state # {}

----------------------------------------------------------------------------
(* Claims about the stored scan time *)

\* the last controller call ran set_last_application_search_time
SavedScanTime ==
    /\ last.op \in {"init", "load_applications_to_cache"}
    /\ Has("set_last_application_search_time")
ScanTimeRecords ==
    {r \in app_state : r.key = STATE_KEY_LAST_APPLICATION_SEARCH_TIME}

C27_WitnessNone ==
    /\ SavedScanTime /\ last.fault = "save_step"
    /\ app_state = {}

----------------------------------------------------------------------------
(* Claims about the schema *)

IsOpen == last.op = "get_repositories"

\* C28: get_repositories on a fresh database (user_version 0) creates the
\* tables applications and app_state and sets user_version to 1; on a
\* database of version 1 it changes no record, so usage_count and last_used
\* survive every restart.
C28_Migration ==
    (IsOpen /\ last.ok) =>
        /\ database.user_version = 1
        /\ database.tables = {"applications", "app_state"}
        /\ last.database_before = FreshDatabase =>
              (applications = << >> /\ app_state = {})
        /\ last.database_before.user_version = 1 =>
              /\ applications = last.applications_before
              /\ app_state = last.app_state_before
              /\ database = last.database_before

\* C28 witness: the process started again on a database of version 1 that
\* holds the record of a launched application and a scan time
C28_Witness ==
    /\ IsOpen /\ last.ok
    /\ last.database_before.user_version = 1
    /\ app_state # {}
    /\ \E i \in DOMAIN applications :
          applications[i].usage_count > 0 /\ applications[i].last_used # NULL

\* C28 witness of the other case: the first start, on a fresh database
C28_WitnessFresh ==
    /\ IsOpen /\ last.ok
    /\ last.database_before = FreshDatabase
    /\ database = MigratedDatabase

----------------------------------------------------------------------------
(* Claims about the working set *)

\* the last controller call was an init or a force refresh that returned Ok
Loaded == last.op \in {"init", "load_applications_to_cache"} /\ last.ok
\* the aliases configured for a path
AliasesOf(path) ==
    {a.alias : a \in {b \in Range(settings.application_name_aliases) : b.path = path}}

\* C29: after every successful init or force refresh each application of the
\* working set has icon_path = the cache directory joined with an icon name
\* made of its app_id alone (16 hex digits of its MD5, ".png"), and alias =
\* the alias configured for its path, if there is one; the records of the
\* store hold neither an alias nor an icon path.
C29_IconAndAlias ==
    /\ Loaded =>
          \A i \in DOMAIN app_cache[1] :
              LET app == app_cache[1][i] IN
              /\ app.icon_path = Some([dir |-> "app_cache_dir",
                                       file |-> [md5_16 |-> app.app_id, ext |-> ".png"]])
              /\ IF AliasesOf(app.path) = {}
                 THEN app.alias = NULL
                 ELSE app.alias # NULL /\ app.alias[1] \in AliasesOf(app.path)
    /\ \A i \in DOMAIN applications :
          DOMAIN applications[i] =
              {"app_id", "name", "path", "usage_count", "last_used", "added_date"}

\* C29 witness: a loaded working set with an application that has an alias
\* and one that has none and whose app_id is not its path
C29_Witness ==
    /\ Loaded
    /\ \E i, j \in DOMAIN app_cache[1] :
          /\ app_cache[1][i].alias = Some("alpha")
          /\ app_cache[1][j].alias = NULL
          /\ app_cache[1][j].app_id # app_cache[1][j].path
    /\ Len(applications) >= 2

----------------------------------------------------------------------------
(* Claims about scanning *)

IsFromPath == last.op = "from_path"
\* a file name that ends with a dot and exe or lnk in any case, after a
\* name of at least one character
EndsWithLaunchable(n) ==
    /\ Len(n) >= 5
    /\ n[Len(n) - 3] = "."
    /\ \/ n[Len(n) - 2] \in {"e", "E"} /\ n[Len(n) - 1] \in {"x", "X"}
                                       /\ n[Len(n)] \in {"e", "E"}
       \/ n[Len(n) - 2] \in {"l", "L"} /\ n[Len(n) - 1] \in {"n", "N"}
                                       /\ n[Len(n)] \in {"k", "K"}
\* the entries of the last scan that are regular files of a launchable type
LaunchableFiles ==
    {i \in DOMAIN last.entries :
        /\ last.entries[i].ok
        /\ last.entries[i].file_type = "file"
        /\ EndsWithLaunchable(last.entries[i].file_name)}
\* the application of a launchable file
AppOfFile(e) ==
    [name |-> SubSeq(e.file_name, 1, Len(e.file_name) - 4),
     app_id |-> e.parent \o <<"\\">> \o e.file_name,
     path |-> e.parent \o <<"\\">> \o e.file_name]

\* C30: from_path returns one application for each regular file whose
\* extension is exe or lnk in any case, with name = the file name without the
\* extension and app_id = path = the path of the file; other files,
\* directories and unreadable entries are skipped and the scan goes on.
C30_FromPath ==
    IsFromPath =>
        /\ Len(last.value) = Cardinality(LaunchableFiles)
        /\ \A i \in LaunchableFiles :
              Cardinality({k \in DOMAIN last.value :
                  /\ last.value[k].name = AppOfFile(last.entries[i]).name
                  /\ last.value[k].app_id = AppOfFile(last.entries[i]).app_id
                  /\ last.value[k].path = AppOfFile(last.entries[i]).path}) = 1
        /\ \A k \in DOMAIN last.value :
              \E i \in LaunchableFiles :
                  last.value[k].path = AppOfFile(last.entries[i]).path

\* C30 witness: an unreadable entry is followed by a file with an upper-case
\* extension, which is found
C30_Witness ==
    /\ IsFromPath
    /\ Len(last.entries) = 2
    /\ ~last.entries[1].ok
    /\ last.entries[2].file_name = <<"B", ".", "E", "X", "E">>
    /\ Len(last.value) = 1 /\ last.value[1].name = <<"B">>

\* C30 witness of the other cases: a directory with a launchable name and a
\* file without extension are skipped
C30_WitnessSkipped ==
    /\ IsFromPath
    /\ Len(last.entries) = 2
    /\ last.entries[1].file_type = "dir"
    /\ last.entries[1].file_name = <<"a", ".", "e", "x", "e">>
    /\ last.entries[2].file_type = "file"
    /\ last.entries[2].file_name = <<"e", "x", "e">>
    /\ last.value = << >>

----------------------------------------------------------------------------
(* Claims about the life of the controller *)

\* the controller is registered for the commands and the tray menu
Managed == {"ready", "poisoned"}
IsCommand == last.op \in {"search_application", "handle_launch_application"}

\* C31: in a run of the process the controller becomes Ready once, by an init
\* that returned Ok, and only then is it registered (app.manage): no
\* search_application or launch_application command runs on a controller
\* whose working set is None, and the working set of a registered controller
\* never becomes None again (it ends with the process).
C31_ReadyOnce ==
    [][/\ phase' \in Managed => app_cache' # NULL
       /\ (phase \notin Managed /\ phase' \in Managed) =>
             (phase = "opened" /\ last'.op = "init" /\ last'.ok)
       /\ (phase \in Managed /\ last' # last) =>
             last'.op \notin {"init", "get_repositories"}
       /\ (last' # last /\ last'.op \in {"search_application",
                                         "handle_launch_application"}) =>
             (phase \in Managed /\ last'.app_cache_before # NULL)
       /\ (app_cache # NULL /\ app_cache' = NULL) => phase' = "stopped"]_vars

\* C31 witness: a command ran on the registered controller, whose working set
\* an init had set
C31_Witness ==
    /\ IsCommand /\ phase \in Managed
    /\ last.app_cache_before # NULL /\ app_cache # NULL

\* C31 witness of the other case: init returned Err, the setup failed and no
\* controller is registered
C31_WitnessFailed ==
    /\ last.op = "init" /\ ~last.ok
    /\ phase = "stopped" /\ app_cache = NULL

----------------------------------------------------------------------------
(* Claims about the working set, the table and the scan *)

CacheIds == Ids(unwrap_or(app_cache, << >>))
\* what the scan of the last refresh collected
ScanIds == Ids(call.applications)

\* C32: between the calls of a registered controller (after init and after
\* every force refresh, whether it returned Ok or Err) the working set and the
\* applications table hold the same app_ids, and after a refresh that returned
\* Ok these are the app_ids that its scan collected.
C32_WorkingSetIsTable ==
    /\ phase \in Managed => CacheIds = Ids(applications)
    /\ (IsRefresh /\ last.ok) =>
          (CacheIds = ScanIds /\ Ids(applications) = ScanIds)

\* the last refresh ended with an Err of its reconciliation or of its icon
\* generation
RefreshFailedLate ==
    /\ IsRefresh /\ ~last.ok
    /\ last.failed_step \in {"renew_applications", "create_app_icon"}

\* C33: only a refresh whose reconciliation and icon generation succeeded
\* advances the stored last scan time: after a refresh in which
\* renew_applications or create_app_icon returned Err,
\* get_last_application_search_time returns what it returned before that
\* refresh, and a rescan that was due is still due.
C33_ScanTimeOnSuccess ==
    RefreshFailedLate =>
        /\ get_last_application_search_time(app_state)
              = get_last_application_search_time(last.app_state_before)
        /\ is_search_application_needed(last.app_state_before, now)
              => is_search_application_needed(app_state, now)

----------------------------------------------------------------------------
(* renew_applications on a directory of executables: scans that find up to *)
(* MaxExes of three executables, in the order of the directory, on a store *)
(* whose connection can report an error at any prepare or step             *)

MaxExes == 2
AppExe2 == Application_new("b", "C:\\b.exe", "C:\\b.exe")
AppExe3 == Application_new("c", "C:\\c.exe", "C:\\c.exe")
Exes == <<AppExe, AppExe2, AppExe3>>
ExeLists ==
    {SelectSeq(Exes, LAMBDA e : e \in found) :
        found \in {f \in SUBSET Range(Exes) : Cardinality(f) <= MaxExes}}

RenewExes ==
    \E apps \in ExeLists, fault \in RenewFaults : RenewApplications(apps, fault)

NextExes == RenewExes

SpecExes == Init /\ [][NextExes]_vars

----------------------------------------------------------------------------
(* Claims about the errors of renew_applications *)

\* C34: renew_applications returns Ok only when every deletion and every
\* insertion it computed has been applied to the applications table: a
\* parameter that cannot be bound and a DELETE or INSERT that cannot be
\* executed make it return Err.
C34_OkMeansApplied ==
    (IsRenew /\ call.ok) =>
        /\ \A i \in DOMAIN call.delete_applications :
              RowsOf(applications, call.delete_applications[i]) = {}
        /\ \A i \in DOMAIN call.value :
              RowsOf(applications, call.value[i].app_id) # {}

\* C35: renew_applications is all-or-nothing: when it returns Err the
\* applications table is as it was before the call, no deletion is applied
\* without the insertions of the same call.
C35_AllOrNothing ==
    (IsRenew /\ ~call.ok) => applications = call.before

----------------------------------------------------------------------------
(* Claims about a scan source that fails *)

\* the identities that the package registry (from_app_store) reports
StoreIds == {AppStore.app_id, AppStore2.app_id}

\* C36: a refresh whose package-registry scan failed (and contributed the
\* empty list) erases no history: every record of a Store application that
\* was in the applications table before the refresh is still there, with its
\* usage_count and last_used.
C36_FailedSourceKeepsRecords ==
    (IsRefresh /\ ~last.store_scan_ok) =>
        \A i \in DOMAIN last.applications_before :
            last.applications_before[i].app_id \in StoreIds =>
                \E j \in DOMAIN applications :
                    /\ applications[j].app_id = last.applications_before[i].app_id
                    /\ applications[j].usage_count
                          = last.applications_before[i].usage_count
                    /\ applications[j].last_used
                          = last.applications_before[i].last_used

----------------------------------------------------------------------------
(* Claims about the working set after a launch *)

\* C37: handle_launch_application leaves the working set as it is: after a
\* launch that succeeded and was recorded in the store, the
\* usage_recency_score of the application in app_cache and the results of
\* every search are what they were, and the working set changes only by an
\* init or a force refresh (or ends with the process).
C37_LaunchKeepsWorkingSet ==
    [][/\ (last' # last /\ last'.op = "handle_launch_application") =>
             /\ app_cache' = app_cache
             /\ \A query \in Queries :
                   handle_search_application(app_cache', query)
                      = handle_search_application(app_cache, query)
       /\ app_cache' # app_cache =>
             last'.op \in {"init", "load_applications_to_cache", "exit"}]_vars

\* C37 witness: a launch succeeded and the store counted it, while the working
\* set still holds the application with the score of no use
C37_Witness ==
    /\ LaunchSucceeded /\ last.fault = "none"
    /\ app_cache = last.app_cache_before
    /\ \E i \in DOMAIN applications, j \in DOMAIN app_cache[1] :
          /\ applications[i].app_id = last.app_id
          /\ applications[i].usage_count = 1
          /\ app_cache[1][j].app_id = last.app_id
          /\ app_cache[1][j].usage_recency_score = [num |-> 0, den |-> 1]

----------------------------------------------------------------------------
(* Claims about the icons *)

\* the applications whose icon generation failed in the latest refresh
IconsFailed == IF call.op = "load_applications_from_search_path" /\ ~call.ok
               THEN Ids(call.value) ELSE {}

\* C38: every application that a refresh inserts is passed to create_app_icon
\* in that refresh, and an application whose icon generation failed is passed
\* to create_app_icon again by the next refresh that finds it and gets to its
\* icon generation.
C38_IconsForEveryInsert ==
    [][(call' # call /\ "create_app_icon" \in Range(last'.trace)) =>
          /\ Ids(applications') \ Ids(applications) \subseteq Ids(call'.value)
          /\ IconsFailed \cap Ids(call'.applications) \subseteq Ids(call'.value)]_vars

----------------------------------------------------------------------------
(* Claims about the arithmetic of the rescan decision *)

IsNeeded == last.op = "is_search_application_needed"

\* C39: is_search_application_needed returns its boolean without arithmetic
\* overflow and without panic for every stored last scan time, every clock
\* and every configured interval: also when the stored time is later than the
\* clock, and when minutes * 60 does not fit in 64 bits.
C39_NoOverflow ==
    IsNeeded => (~last.needed.panicked /\ ~last.needed.overflow)

====
